---- MODULE Spec2Model ----
(***************************************************************************)
(* PCRLogger: the token-bucket API client (modules/api_client.mjs, kept in *)
(* src/unnamed/part_001 lines 1-189) and the batch script that drives it   *)
(* (src/src/index.js).                                                     *)
(*                                                                         *)
(* The specifications share the client's actions:                         *)
(*   Spec      the client used as a library: any interleaving of           *)
(*             get_ticket, get_feed, fetch_ticket, search_tickets,         *)
(*             consume_token and refresh_tokens calls, of the responses    *)
(*             to the requests in flight, and of the clock advancing;      *)
(*   SpecMain  the script index.js run from start to exit;                 *)
(*   SpecLive  the calls that enter consume_token, with the fairness of    *)
(*             its synchronous loop;                                       *)
(*   SpecQuantity  the normalization of fetch_ticket on ticket bodies.     *)
(* Time is Date.now() in milliseconds.                                     *)
(***************************************************************************)
EXTENDS Integers, Sequences, FiniteSets, Bags

VARIABLES
    env_TDX_KEY,    \* process.env.TDX_KEY is defined
    cpc,            \* the client: "none", "failed", "ready" (no code of it
                    \* runs), "consume" (inside consume_token), "exited"
    call,           \* the method that entered consume_token
    tokens,         \* ApiClient.tokens
    lastRefresh,    \* ApiClient.lastRefresh
    clock,          \* Date.now()
    inflight,       \* HTTP requests sent and not yet answered
    windowSent,     \* requests sent since the last refill
    windowTaken,    \* tokens taken since the last refill
    posts,          \* search_tickets calls since the last refill
    consumes,       \* direct consume_token calls since the last refill
    lastOp,         \* the client code that ran last, and whether it refilled
    checks,         \* refill checks made so far, counted up to MaxChecks
    result,         \* what the client code that ran last gave its caller
    mpc,            \* position of index.js
    file,           \* tickets.txt: "ENOENT", "EACCES" or its lines
    ticket_ids,     \* index.js ticket_ids
    idx,            \* number of ids the fetch loop has started
    fetched,        \* the last answered fetch: the body and index.js ticket
    tickets,        \* index.js tickets (the rows)
    sheet,          \* the rows added to the workbook's sheet
    written,        \* tickets.xlsx: whether it was written, and its rows
    attempts,       \* calls of book.xlsx.writeFile so far
    console,        \* messages printed so far
    exitCode        \* process exit status, Running while the process lives

clientVars == <<env_TDX_KEY, cpc, call, tokens, lastRefresh, clock, inflight,
                windowSent, windowTaken, posts, consumes, lastOp, checks, result>>
mainVars == <<mpc, file, ticket_ids, idx, fetched, tickets, sheet, written,
             attempts>>
vars == <<clientVars, mainVars, console, exitCode>>

----------------------------------------------------------------------------
(* Constants of the program *)

MAX_TOKENS == 50
REFRESH_SECONDS == 60
MS_PER_SECOND == 1000
SLEEP_MS == 500

(* Bounds of the model *)

MaxClock == 61000
MaxPosts == 1
MaxConsumes == 2
MaxInflight == 2
MaxLines == 2
MaxBusy == 2
MaxChecks == 2

Undefined == 0 - 1
Running == 0 - 1

WindowMs == REFRESH_SECONDS * MS_PER_SECOND

\* How far the clock may move while no code of the client runs.
ClockSteps == {WindowMs}

----------------------------------------------------------------------------
(* ApiClient *)

\* A refill check that takes half a minute for the window.
refresh_tokens_half_window(t, lr, now) ==
    IF lr = Undefined \/ (now - lr) \div MS_PER_SECOND >= REFRESH_SECONDS \div 2
    THEN [tokens |-> MAX_TOKENS, lastRefresh |-> now, refilled |-> TRUE]
    ELSE [tokens |-> t, lastRefresh |-> lr, refilled |-> FALSE]

\* A refill that replenishes only half of the capacity.
refresh_tokens_partial(t, lr, now) ==
    IF lr = Undefined \/ (now - lr) \div MS_PER_SECOND >= REFRESH_SECONDS
    THEN [tokens |-> MAX_TOKENS \div 2, lastRefresh |-> now, refilled |-> TRUE]
    ELSE [tokens |-> t, lastRefresh |-> lr, refilled |-> FALSE]

\* refresh_tokens(): the bucket after a refill check at time now. The two
\* reads of Date.now() in one check are taken to give the same value, and
\* the optional refreshCallback, a display hook, is left out.
refresh_tokens(t, lr, now) ==
    IF lr = Undefined \/ (now - lr) \div MS_PER_SECOND >= REFRESH_SECONDS
    THEN [tokens |-> MAX_TOKENS, lastRefresh |-> now, refilled |-> TRUE]
    ELSE [tokens |-> t, lastRefresh |-> lr, refilled |-> FALSE]


\* A loop condition that lets the last token go twice.
consume_token_loop_below_zero(t) == t < 0

\* A loop condition no refill can end.
consume_token_loop_at_capacity(t) == t < MAX_TOKENS + 1

\* consume_token(): the condition of its while loop.
consume_token_loop(t) == t < 1

\* The count of refill checks after one more.
Checked == IF checks < MaxChecks THEN checks + 1 ELSE checks

\* Ghost counters of the current refill window after one more request, sent
\* with (taken = 1) or without (taken = 0) a token, following a refill check r.
Window(r, sent, taken) ==
    [sent  |-> (IF r.refilled THEN 0 ELSE windowSent) + sent,
     taken |-> (IF r.refilled THEN 0 ELSE windowTaken) + taken,
     posts |-> IF r.refilled THEN 0 ELSE posts,
     consumes |-> IF r.refilled THEN 0 ELSE consumes]

\* An error report that prints and lets the process run on.
error_without_exit(msg, n) ==
    /\ console' = Append(console, [msg |-> msg, n |-> n])
    /\ exitCode' = exitCode

\* error(err) of api_client.mjs and error(msg) of index.js: print, exit(1).
error(msg, n) ==
    /\ console' = Append(console, [msg |-> msg, n |-> n])
    /\ exitCode' = 1

\* An exception nothing catches at the top level of the script: node prints
\* it and exits with status 1.
Uncaught(msg) ==
    /\ console' = Append(console, [msg |-> msg, n |-> 0])
    /\ exitCode' = 1

\* new ApiClient()
Construct ==
    /\ cpc = "none"
    /\ exitCode = Running
    /\ IF ~env_TDX_KEY
       THEN /\ error("ERROR: Remember to set an API key.", 0)
            /\ cpc' = "failed"
            /\ UNCHANGED <<tokens, lastOp>>
       ELSE /\ tokens' = 0
            /\ cpc' = "ready"
            /\ lastOp' = [op |-> "constructor", refilled |-> FALSE]
            /\ UNCHANGED <<console, exitCode>>
    /\ UNCHANGED <<env_TDX_KEY, call, lastRefresh, clock, inflight, windowSent,
                   windowTaken, posts, consumes, checks, result, mainVars>>

\* A direct call of the public method refresh_tokens().
RefreshTokensCall ==
    /\ cpc = "ready"
    /\ mpc = "lib"
    /\ LET r == refresh_tokens(tokens, lastRefresh, clock)
           w == Window(r, 0, 0)
       IN /\ tokens' = r.tokens
          /\ lastRefresh' = r.lastRefresh
          /\ windowSent' = w.sent
          /\ windowTaken' = w.taken
          /\ posts' = w.posts
          /\ consumes' = w.consumes
          /\ lastOp' = [op |-> "refresh_tokens", refilled |-> r.refilled]
    /\ checks' = Checked
    /\ result' = "undefined"
    /\ UNCHANGED <<env_TDX_KEY, cpc, call, clock, inflight, mainVars, console,
                   exitCode>>

\* consume_token(), the loop: no token, so a refill check and msleep(500).
consume_token_wait ==
    /\ cpc = "consume"
    /\ consume_token_loop(tokens)
    /\ clock + SLEEP_MS <= MaxClock
    /\ LET r == refresh_tokens(tokens, lastRefresh, clock)
           w == Window(r, 0, 0)
       IN /\ tokens' = r.tokens
          /\ lastRefresh' = r.lastRefresh
          /\ windowSent' = w.sent
          /\ windowTaken' = w.taken
          /\ posts' = w.posts
          /\ consumes' = w.consumes
          /\ lastOp' = [op |-> "consume_wait", refilled |-> r.refilled]
    /\ checks' = Checked
    /\ clock' = clock + SLEEP_MS
    /\ UNCHANGED <<env_TDX_KEY, cpc, call, inflight, result, mainVars,
                   console, exitCode>>

\* No method is inside consume_token.
NoCall == [name |-> "none", id |-> <<>>]

\* consume_token() past the loop: a refill check, one token taken, return
\* true. Called on its own it gives true to its caller; called by get(),
\* get() goes on to send the request and returns the pending promise.
consume_token_take ==
    /\ cpc = "consume"
    /\ ~consume_token_loop(tokens)
    /\ LET r == refresh_tokens(tokens, lastRefresh, clock)
           w == Window(r, IF call.name = "consume_token" THEN 0 ELSE 1, 1)
       IN /\ tokens' = r.tokens - 1
          /\ lastRefresh' = r.lastRefresh
          /\ windowSent' = w.sent
          /\ windowTaken' = w.taken
          /\ posts' = w.posts
          /\ consumes' = w.consumes
          /\ lastOp' = [op |-> "consume_take", refilled |-> r.refilled]
    /\ checks' = Checked
    /\ IF call.name = "consume_token"
       THEN /\ result' = "true"
            /\ UNCHANGED inflight
       ELSE /\ inflight' = inflight (+) SetToBag({call})
            /\ result' = "pending"
    /\ cpc' = "ready"
    /\ call' = NoCall
    /\ UNCHANGED <<env_TDX_KEY, clock, mainVars, console, exitCode>>

\* get(path), entered from get_ticket, get_feed or fetch_ticket: nothing
\* is given to the caller before consume_token has returned.
get(name, id) ==
    /\ cpc = "ready"
    /\ cpc' = "consume"
    /\ call' = [name |-> name, id |-> id]
    /\ result' = "none"
    /\ UNCHANGED <<env_TDX_KEY, tokens, lastRefresh, clock, inflight,
                   windowSent, windowTaken, posts, consumes, lastOp, checks>>

\* post(path, data), entered from search_tickets: the request is sent at once.
post(name) ==
    /\ cpc = "ready"
    /\ inflight' = inflight (+) SetToBag({[name |-> name, id |-> <<>>]})
    /\ windowSent' = windowSent + 1
    /\ lastOp' = [op |-> "post", refilled |-> FALSE]
    /\ result' = "pending"
    /\ UNCHANGED <<env_TDX_KEY, cpc, call, tokens, lastRefresh, clock,
                   windowTaken, consumes, checks>>


----------------------------------------------------------------------------
(* Ticket payloads and their normalization *)

\* The attributes fetch_ticket looks up in json.Attributes.
Attributes ==
    {"Vendor", "Renewal", "Technology Type", "Software Type",
     "Information Classification Standard", "NUM_STUDENTS_ID", "NUM_STAFF_ID",
     "NUM_PUBLIC_ID", "NUM_OTHERS_ID", "TECH_COORDINATOR_ID",
     "DoIT Security Classification", "DoIT Security SME Summary"}

Digits == {"0", "1", "2", "3", "4", "5", "6", "7", "8", "9"}

\* The four count attributes, found by attr.ID.
CountIds == {"NUM_STUDENTS_ID", "NUM_STAFF_ID", "NUM_PUBLIC_ID", "NUM_OTHERS_ID"}

\* The Value of each count attribute in the sample tickets.
SampleCounts ==
    [c \in CountIds |->
        CASE c = "NUM_STUDENTS_ID" -> <<"3">>
          [] c = "NUM_STAFF_ID" -> <<"2">>
          [] c = "NUM_PUBLIC_ID" -> <<"1">>
          [] OTHER -> <<"0">>]

\* The responses of the service to GET tickets/{id}: a non-success status, or
\* a ticket that has every attribute or lacks exactly one of them.
Responses(id) ==
    {[ok |-> FALSE, ID |-> id, attrs |-> {}, counts |-> SampleCounts]}
    \cup {[ok |-> TRUE, ID |-> id, attrs |-> Attributes, counts |-> SampleCounts]}
    \cup {[ok |-> TRUE, ID |-> id, attrs |-> Attributes \ {a},
           counts |-> SampleCounts] : a \in Attributes}

\* json.Attributes.find(attr => ...)?.ValueText
ValueText(json, name) == IF name \in json.attrs THEN "text" ELSE "undefined"

\* json.Attributes.find(attr => attr.ID === id)?.Value: a text, a sequence
\* of characters, or undefined.
Value(json, id) ==
    IF id \in json.attrs
    THEN [defined |-> TRUE, text |-> json.counts[id]]
    ELSE [defined |-> FALSE, text |-> <<>>]

\* Numbers of the script: an integer, or NaN.
NaN == [nan |-> TRUE, n |-> 0]
Number(n) == [nan |-> FALSE, n |-> n]

DigitValue(c) ==
    CASE c = "0" -> 0 [] c = "1" -> 1 [] c = "2" -> 2 [] c = "3" -> 3
      [] c = "4" -> 4 [] c = "5" -> 5 [] c = "6" -> 6 [] c = "7" -> 7
      [] c = "8" -> 8 [] OTHER -> 9

RECURSIVE Decimal(_)
\* The number a text of digits reads as; the empty text reads as 0.
Decimal(text) ==
    IF text = <<>>
    THEN 0
    ELSE 10 * Decimal(SubSeq(text, 1, Len(text) - 1)) + DigitValue(text[Len(text)])

\* The unary plus, +v: undefined gives NaN, a text of digits its number, any
\* other text of the model NaN.
ToNumber(v) ==
    IF ~v.defined THEN NaN
    ELSE IF \E i \in 1..Len(v.text) : v.text[i] \notin Digits THEN NaN
    ELSE Number(Decimal(v.text))

\* a + b on numbers.
Plus(a, b) == IF a.nan \/ b.nan THEN NaN ELSE Number(a.n + b.n)

\* quantity = +qtyStudents + +qtyStaff + +qtyPublic + +qtyOthers
quantity(json) ==
    Plus(Plus(Plus(ToNumber(Value(json, "NUM_STUDENTS_ID")),
                   ToNumber(Value(json, "NUM_STAFF_ID"))),
              ToNumber(Value(json, "NUM_PUBLIC_ID"))),
         ToNumber(Value(json, "NUM_OTHERS_ID")))

\* The ticket object with nothing but its id, for a callback that threw.
NoTicket(id) ==
    [id |-> id, vendor |-> "undefined", isRenewal |-> "", swType |-> "",
     infoClass |-> "undefined", quantity |-> NaN, techCoordinator |-> "undefined",
     risk |-> "undefined", summary |-> "undefined"]

\* Lines 109-110: infoClass.startsWith throws on an undefined infoClass.
infoClass_throws(json) ==
    ValueText(json, "Information Classification Standard") = "undefined"

\* The .then callback of fetch_ticket: the ticket object built from json, or
\* the TypeError of infoClass.startsWith.
fetch_ticket_then(json) ==
    IF infoClass_throws(json)
    THEN [throws |-> TRUE, ticket |-> NoTicket(json.ID)]
    ELSE [throws |-> FALSE,
          ticket |-> [id |-> json.ID,
                      vendor |-> ValueText(json, "Vendor"),
                      isRenewal |-> IF "Renewal" \in json.attrs
                                    THEN "Renewal" ELSE "New",
                      swType |-> IF "Software Type" \in json.attrs
                                 THEN "SaaS" ELSE "",
                      infoClass |-> "Level",
                      quantity |-> quantity(json),
                      techCoordinator |-> ValueText(json, "TECH_COORDINATOR_ID"),
                      risk |-> ValueText(json, "DoIT Security Classification"),
                      summary |-> ValueText(json, "DoIT Security SME Summary")]]

\* parse_summary(summary): summary.match throws on an undefined summary.
parse_summary(summary) ==
    IF summary = "undefined"
    THEN [throws |-> TRUE, notes |-> ""]
    ELSE [throws |-> FALSE, notes |-> "notes"]

\* The row of a ticket, with the notes parse_summary gave.
Row(ticket, notes) ==
    [id |-> ticket.id, vendor |-> ticket.vendor, isRenewal |-> ticket.isRenewal,
     swType |-> ticket.swType, infoClass |-> ticket.infoClass,
     quantity |-> ticket.quantity, techCoordinator |-> ticket.techCoordinator,
     risk |-> ticket.risk, notes |-> notes]

\* ticket_object_to_row(ticket)
ticket_object_to_row(ticket) ==
    LET summary == parse_summary(ticket.summary)
    IN IF summary.throws
       THEN [throws |-> TRUE, row |-> Row(ticket, "")]
       ELSE [throws |-> FALSE, row |-> Row(ticket, summary.notes)]

----------------------------------------------------------------------------
(* The client used as a library *)

ID_A == <<"1", "2", "3", "4", "5", "6", "7", "8">>
ID_B == <<"2", "4", "6", "8", "1", "3", "5", "7">>

\* A caller of the library may call any method whenever no code of the
\* client runs, also while earlier requests await their responses.
CanSend == BagCardinality(inflight) < MaxInflight

get_ticket ==
    /\ mpc = "lib"
    /\ CanSend
    /\ get("get_ticket", ID_A)
    /\ UNCHANGED <<mainVars, console, exitCode>>

get_feed ==
    /\ mpc = "lib"
    /\ CanSend
    /\ get("get_feed", ID_A)
    /\ UNCHANGED <<mainVars, console, exitCode>>

fetch_ticket ==
    /\ mpc = "lib"
    /\ CanSend
    /\ get("fetch_ticket", ID_A)
    /\ UNCHANGED <<mainVars, console, exitCode>>

search_tickets ==
    /\ mpc = "lib"
    /\ CanSend
    /\ posts < MaxPosts
    /\ post("search_tickets")
    /\ posts' = posts + 1
    /\ UNCHANGED <<mainVars, console, exitCode>>

\* A direct call of the public method consume_token().
consume_token ==
    /\ mpc = "lib"
    /\ cpc = "ready"
    /\ consumes < MaxConsumes
    /\ cpc' = "consume"
    /\ call' = [name |-> "consume_token", id |-> <<>>]
    /\ consumes' = consumes + 1
    /\ result' = "none"
    /\ UNCHANGED <<env_TDX_KEY, tokens, lastRefresh, clock, inflight,
                   windowSent, windowTaken, posts, lastOp, checks, mainVars,
                   console, exitCode>>

\* The response to a get_ticket, get_feed or search_tickets request in
\* flight reaches its caller: the parsed body, or the Error thrown on a
\* non-success status.
Respond ==
    /\ mpc = "lib"
    /\ cpc = "ready"
    /\ \E req \in BagToSet(inflight) :
         /\ req.name # "fetch_ticket"
         /\ inflight' = inflight (-) SetToBag({req})
    /\ \E ok \in BOOLEAN : result' = IF ok THEN "json" ELSE "Error"
    /\ lastOp' = [op |-> "response", refilled |-> FALSE]
    /\ UNCHANGED <<env_TDX_KEY, cpc, call, tokens, lastRefresh, clock,
                   windowSent, windowTaken, posts, consumes, checks, mainVars,
                   console, exitCode>>

\* The response to a fetch_ticket request in flight: .then builds the
\* ticket, .catch calls error.
FetchTicketRespond ==
    /\ mpc = "lib"
    /\ cpc = "ready"
    /\ \E req \in BagToSet(inflight) :
         /\ req.name = "fetch_ticket"
         /\ inflight' = inflight (-) SetToBag({req})
         /\ \E json \in Responses(req.id) :
              IF ~json.ok \/ infoClass_throws(json)
              THEN /\ error(IF json.ok THEN "TypeError" ELSE "Error", 0)
                   /\ cpc' = "exited"
                   /\ result' = IF json.ok THEN "TypeError" ELSE "Error"
              ELSE /\ result' = "ticket"
                   /\ cpc' = "ready"
                   /\ UNCHANGED <<console, exitCode>>
    /\ lastOp' = [op |-> "response", refilled |-> FALSE]
    /\ UNCHANGED <<env_TDX_KEY, call, tokens, lastRefresh, clock, windowSent,
                   windowTaken, posts, consumes, checks, mainVars>>

\* Time passes while nothing of the client runs: between the calls of a
\* library user, or while index.js awaits the response to its fetch.
Tick ==
    /\ cpc = "ready"
    /\ mpc \in {"lib", "await"}
    /\ exitCode = Running
    /\ \E d \in ClockSteps :
         /\ clock + d <= MaxClock
         /\ clock' = clock + d
    /\ UNCHANGED <<env_TDX_KEY, cpc, call, tokens, lastRefresh, inflight,
                   windowSent, windowTaken, posts, consumes, lastOp, checks,
                   result, mainVars, console, exitCode>>

\* No fetch answered yet.
NoFetch ==
    [json |-> [ok |-> FALSE, ID |-> <<>>, attrs |-> {}, counts |-> SampleCounts],
     ticket |-> NoTicket(<<>>)]

InitClient ==
    /\ env_TDX_KEY \in BOOLEAN
    /\ cpc = "none"
    /\ call = NoCall
    /\ tokens = Undefined
    /\ lastRefresh = Undefined
    /\ clock = 0
    /\ inflight = EmptyBag
    /\ windowSent = 0
    /\ windowTaken = 0
    /\ posts = 0
    /\ consumes = 0
    /\ lastOp = [op |-> "none", refilled |-> FALSE]
    /\ checks = 0
    /\ result = "none"
    /\ console = <<>>
    /\ exitCode = Running

Init ==
    /\ InitClient
    /\ mpc = "lib"
    /\ file = [err |-> "none", lines |-> <<>>]
    /\ ticket_ids = <<>>
    /\ idx = 0
    /\ fetched = NoFetch
    /\ tickets = <<>>
    /\ sheet = <<>>
    /\ written = [exists |-> FALSE, rows |-> <<>>]
    /\ attempts = 0

Next ==
    \/ Construct
    \/ RefreshTokensCall
    \/ get_ticket
    \/ get_feed
    \/ fetch_ticket
    \/ search_tickets
    \/ consume_token
    \/ consume_token_wait
    \/ consume_token_take
    \/ Respond
    \/ FetchTicketRespond
    \/ Tick

Spec == Init /\ [][Next]_vars

\* The calls that enter consume_token, by get or directly, and what they
\* need around them.
NextLive ==
    \/ Construct
    \/ get_ticket
    \/ consume_token
    \/ consume_token_wait
    \/ consume_token_take
    \/ Respond
    \/ Tick

\* consume_token is synchronous: once entered, its loop and its last three
\* statements are the only code that runs, and msleep returns as long as the
\* clock advances.
SpecLive ==
    /\ Init
    /\ [][NextLive]_vars
    /\ WF_vars(consume_token_wait)
    /\ WF_vars(consume_token_take)


----------------------------------------------------------------------------
(* index.js *)

\* /^[0-9]{8}$/.test(line)
ticket_id_reg_exp(line) ==
    /\ Len(line) = 8
    /\ \A i \in 1..Len(line) : line[i] \in Digits

BLANK == <<>>
BAD_SHORT == <<"1", "2", "3", "4", "5", "6", "7">>
BAD_ALPHA == <<"a", "b", "c", "d", "e", "f", "g", "h">>

\* The lines tickets.txt may hold, a line being the sequence of its characters.
LineSet == {BLANK, ID_A, ID_B, BAD_SHORT, BAD_ALPHA}

\* data.split(/\r?\n/) gives at least one line, also for an empty file.
Files ==
    {[err |-> e, lines |-> <<>>] : e \in {"ENOENT", "EACCES"}}
    \cup {[err |-> "none", lines |-> l] :
            l \in UNION {[1..n -> LineSet] : n \in 1..MaxLines}}

Min(S) == CHOOSE x \in S : \A y \in S : x <= y

\* load_ticket_ids(path): the ids, or the message error() is called with.
load_ticket_ids(f) ==
    LET lines == f.lines
        bad == {i \in 1..Len(lines) :
                  lines[i] # BLANK /\ ~ticket_id_reg_exp(lines[i])}
    IN IF f.err = "ENOENT"
       THEN [ok |-> FALSE, msg |-> "Could not find file", n |-> 0, ids |-> <<>>]
       ELSE IF f.err # "none"
       THEN [ok |-> FALSE, msg |-> f.err, n |-> 0, ids |-> <<>>]
       ELSE IF bad # {}
       THEN [ok |-> FALSE, msg |-> "Invalid ticket ID", n |-> Min(bad),
             ids |-> <<>>]
       ELSE [ok |-> TRUE, msg |-> "", n |-> 0,
             ids |-> SelectSeq(lines, LAMBDA l : l # BLANK)]

\* Lines 22-30: load the ids, check that there are some, report their number.
Startup ==
    /\ mpc = "start"
    /\ cpc = "ready"
    /\ LET r == load_ticket_ids(file)
       IN IF ~r.ok
          THEN /\ error(r.msg, r.n)
               /\ mpc' = "exited"
               /\ UNCHANGED ticket_ids
          ELSE IF r.ids = <<>>
          THEN \* ticket_ids[0] is undefined: reading its length throws
               /\ Uncaught("TypeError")
               /\ mpc' = "exited"
               /\ ticket_ids' = r.ids
          ELSE IF Len(r.ids[1]) = 0
          THEN /\ error("Error: No ticket IDs found", 0)
               /\ mpc' = "exited"
               /\ ticket_ids' = r.ids
          ELSE /\ console' = Append(console, [msg |-> "Found tickets",
                                              n |-> Len(r.ids)])
               /\ mpc' = "loop"
               /\ ticket_ids' = r.ids
               /\ UNCHANGED exitCode
    /\ UNCHANGED <<clientVars, file, idx, fetched, tickets, sheet, written,
                   attempts>>

\* for (const id of ticket_ids): the id of iteration i + 1.
loop_id(ids, i) == ids[i + 1]

\* A row put in front of the rows instead of after them.
push_front(rows, row) == <<row>> \o rows

\* tickets.push(row)
push(rows, row) == Append(rows, row)

\* Lines 31-32: the loop calls client.fetch_ticket(id) and awaits it.
LoopFetch ==
    /\ mpc = "loop"
    /\ exitCode = Running
    /\ idx < Len(ticket_ids)
    /\ get("fetch_ticket", loop_id(ticket_ids, idx))
    /\ idx' = idx + 1
    /\ mpc' = "await"
    /\ UNCHANGED <<file, ticket_ids, fetched, tickets, sheet, written, attempts,
                   console, exitCode>>

\* The response arrives: fetch_ticket's .then and .catch, then lines 33-34.
LoopResponse ==
    /\ mpc = "await"
    /\ cpc = "ready"
    /\ \E req \in BagToSet(inflight) :
         /\ inflight' = inflight (-) SetToBag({req})
         /\ \E json \in Responses(req.id) :
              LET t == fetch_ticket_then(json)
                  r == ticket_object_to_row(t.ticket)
              IN /\ fetched' = [json |-> json, ticket |-> t.ticket]
                 /\ IF ~json.ok \/ t.throws
                    THEN /\ error(IF json.ok THEN "TypeError" ELSE "Error", 0)
                         /\ result' = IF json.ok THEN "TypeError" ELSE "Error"
                         /\ cpc' = "exited"
                         /\ mpc' = "exited"
                         /\ UNCHANGED tickets
                    ELSE IF r.throws
                    THEN /\ Uncaught("TypeError")
                         /\ result' = "TypeError"
                         /\ cpc' = "exited"
                         /\ mpc' = "exited"
                         /\ UNCHANGED tickets
                    ELSE /\ tickets' = push(tickets, r.row)
                         /\ result' = "ticket"
                         /\ cpc' = "ready"
                         /\ mpc' = "loop"
                         /\ UNCHANGED <<console, exitCode>>
    /\ lastOp' = [op |-> "response", refilled |-> FALSE]
    /\ UNCHANGED <<env_TDX_KEY, call, tokens, lastRefresh, clock, windowSent,
                   windowTaken, posts, consumes, checks, file, ticket_ids, idx,
                   sheet, written, attempts>>

\* Lines 36-45: the loop is over, every row is added to the sheet.
LoopEnd ==
    /\ mpc = "loop"
    /\ exitCode = Running
    /\ idx = Len(ticket_ids)
    /\ sheet' = tickets
    /\ mpc' = "write"
    /\ UNCHANGED <<clientVars, file, ticket_ids, idx, fetched, tickets, written,
                   attempts, console, exitCode>>

\* What book.xlsx.writeFile may do: write the file, or fail with a code.
WriteOutcomes == {"ok", "EBUSY", "EACCES"}

\* Lines 48-62: one pass of the while (busy) loop and, when it leaves the
\* loop, the closing message and the end of the script.
WriteFile ==
    /\ mpc = "write"
    /\ exitCode = Running
    /\ attempts' = attempts + 1
    /\ \E outcome \in WriteOutcomes :
         /\ written' = IF outcome = "ok"
                       THEN [exists |-> TRUE, rows |-> sheet]
                       ELSE written
         /\ IF outcome = "EBUSY"
            THEN /\ attempts < MaxBusy
                 /\ console' = Append(console, [msg |-> "Please close", n |-> 0])
                 /\ clock' = clock + SLEEP_MS
                 /\ UNCHANGED <<mpc, exitCode>>
            ELSE /\ console' = Append(console, [msg |-> "Wrote tickets",
                                                n |-> Len(tickets)])
                 /\ mpc' = "done"
                 /\ exitCode' = 0
                 /\ UNCHANGED clock
    /\ UNCHANGED <<env_TDX_KEY, cpc, call, tokens, lastRefresh, inflight,
                   windowSent, windowTaken, posts, consumes, lastOp, checks, result, file,
                   ticket_ids, idx, fetched, tickets, sheet>>

InitMain ==
    /\ InitClient
    /\ mpc = "start"
    /\ file \in Files
    /\ ticket_ids = <<>>
    /\ idx = 0
    /\ fetched = NoFetch
    /\ tickets = <<>>
    /\ sheet = <<>>
    /\ written = [exists |-> FALSE, rows |-> <<>>]
    /\ attempts = 0

NextMain ==
    \/ Construct
    \/ Startup
    \/ LoopFetch
    \/ consume_token_wait
    \/ consume_token_take
    \/ LoopResponse
    \/ LoopEnd
    \/ WriteFile
    \/ Tick

SpecMain == InitMain /\ [][NextMain]_vars

----------------------------------------------------------------------------
(* The quantity of a ticket, as fetch_ticket computes it *)

\* The texts a count attribute may hold.
CountTexts == {<<"0">>, <<"2">>, <<"3">>, <<"1", "0">>}

\* Tickets with every other attribute, any of the four counts present or
\* absent, and any of the texts in the present ones.
CountPayloads ==
    {[ok |-> TRUE, ID |-> ID_A, attrs |-> (Attributes \ CountIds) \cup present,
      counts |-> c] : present \in SUBSET CountIds, c \in [CountIds -> CountTexts]}

InitQuantity ==
    /\ InitClient
    /\ mpc = "quantity"
    /\ file = [err |-> "none", lines |-> <<>>]
    /\ ticket_ids = <<>>
    /\ idx = 0
    /\ fetched \in {[json |-> j, ticket |-> NoTicket(j.ID)] : j \in CountPayloads}
    /\ tickets = <<>>
    /\ sheet = <<>>
    /\ written = [exists |-> FALSE, rows |-> <<>>]
    /\ attempts = 0

\* The .then callback of fetch_ticket runs on the body.
NormalizeCounts ==
    /\ mpc = "quantity"
    /\ fetched' = [json |-> fetched.json,
                   ticket |-> fetch_ticket_then(fetched.json).ticket]
    /\ mpc' = "normalized"
    /\ UNCHANGED <<clientVars, file, ticket_ids, idx, tickets, sheet, written,
                   attempts, console, exitCode>>

NextQuantity == NormalizeCounts

SpecQuantity == InitQuantity /\ [][NextQuantity]_vars

----------------------------------------------------------------------------
(* Properties of the client, checked under Spec *)

Constructed == cpc \in {"ready", "consume", "exited"}

\* A step that sends an HTTP request.
Sends == BagCardinality(inflight') > BagCardinality(inflight)

\* C1: every outbound request, through get or through post, takes one
\* permit: the step that sends it runs consume_token, which leaves tokens one
\* below what the refill check gave.
C1_EveryRequestTakesToken ==
    [][Sends => tokens' = refresh_tokens(tokens, lastRefresh, clock).tokens - 1]_vars

\* C2: between one refill and the next, no more than MAX_TOKENS requests
\* are sent.
C2_WindowWithinCapacity == windowSent <= MAX_TOKENS

\* C3: once the client is constructed, 0 <= tokens <= MAX_TOKENS, whatever
\* calls and clock advances follow.
C3_TokensInRange == Constructed => (0 <= tokens /\ tokens <= MAX_TOKENS)

\* C3 witness: the bucket ran empty and a further consume_token is under way.
C3_Witness ==
    /\ cpc = "consume"
    /\ tokens = 0
    /\ windowTaken = MAX_TOKENS
    /\ lastOp.op = "consume_wait"

\* C4: a new client has tokens = 0 and no refill time; no request is sent
\* before a refill check has run; the first refill check leaves exactly
\* MAX_TOKENS tokens.
C4_FirstRequestNeedsRefill ==
    /\ (Constructed /\ checks = 0) =>
          (tokens = 0 /\ lastRefresh = Undefined /\ windowSent = 0 /\ inflight = EmptyBag)
    /\ checks = 1 => (tokens = MAX_TOKENS /\ lastRefresh # Undefined)

\* C5: while less than 60 seconds have passed since the last refill, no
\* refill check changes lastRefresh or tokens: tokens only changes by the one
\* token consume_token takes after its check.
C5_RefillIdempotentInWindow ==
    [][(lastRefresh # Undefined /\ clock - lastRefresh < WindowMs) =>
          /\ lastRefresh' = lastRefresh
          /\ \/ tokens' = tokens
             \/ lastOp'.op = "consume_take" /\ tokens' = tokens - 1]_vars

\* C5 witness: a repeated direct refill check inside the window, on a
\* partly used bucket, that did not refill.
C5_Witness ==
    /\ lastOp = [op |-> "refresh_tokens", refilled |-> FALSE]
    /\ checks = MaxChecks
    /\ lastRefresh # Undefined
    /\ clock - lastRefresh < WindowMs
    /\ clock > lastRefresh
    /\ 0 < tokens /\ tokens < MAX_TOKENS

\* C6: with MAX_TOKENS tokens taken since the last refill, a consume_token
\* under way neither returns nor lets its request be sent; the window only
\* restarts by a refill made 60 seconds or more after the last one.
C6_ExhaustedBlocksUntilRefill ==
    [][(cpc = "consume" /\ windowTaken = MAX_TOKENS) =>
          /\ cpc' = "consume"
          /\ inflight' = inflight
          /\ windowSent' = windowSent \/ windowSent' = 0
          /\ windowTaken' # windowTaken =>
                /\ clock - lastRefresh >= WindowMs
                /\ lastRefresh' = clock
                /\ tokens' = MAX_TOKENS]_vars

\* C6 witness: the bucket was emptied, the call waited a full window, and
\* its refill check has just refilled the bucket.
C6_Witness ==
    /\ cpc = "consume"
    /\ lastOp = [op |-> "consume_wait", refilled |-> TRUE]
    /\ checks = MaxChecks
    /\ tokens = MAX_TOKENS
    /\ windowTaken = 0
    /\ lastRefresh >= WindowMs

----------------------------------------------------------------------------
(* Properties of the script, checked under SpecMain *)

\* C7: at most one fetch is in flight, the rows follow the ids in input
\* order, and a loop that ends has one row per id, duplicates included.
C7_OneAtATimeInOrder ==
    /\ BagCardinality(inflight) <= 1
    /\ inflight # EmptyBag =>
          /\ mpc = "await"
          /\ inflight = SetToBag({[name |-> "fetch_ticket", id |-> ticket_ids[idx]]})
          /\ Len(tickets) = idx - 1
    /\ Len(tickets) <= idx
    /\ \A i \in 1..Len(tickets) : tickets[i].id = ticket_ids[i]
    /\ mpc \in {"write", "done"} =>
          /\ Len(tickets) = Len(ticket_ids)
          /\ Len(load_ticket_ids(file).ids) = Len(tickets)

\* C7 witness: the loop ended on the same id given twice, with its two rows.
C7_Witness ==
    /\ mpc = "write"
    /\ Len(ticket_ids) = 2
    /\ ticket_ids[1] = ticket_ids[2]
    /\ Len(tickets) = 2
    /\ tickets[1].id = tickets[2].id

Failures == {"Error", "TypeError"}

\* C8: a non-success response or a throwing normalization ends the run with
\* status 1: the failing ticket gives no row, nothing is fetched after it,
\* and tickets.xlsx is never written.
C8_FailureAbortsBatch ==
    [][/\ result' \in Failures =>
            /\ exitCode' = 1
            /\ inflight' = EmptyBag
            /\ Len(tickets') = idx' - 1
            /\ attempts' = 0
            /\ ~written'.exists
       /\ result \notin Failures]_vars

\* C8 witness: the second of two tickets failed after the first gave a row.
C8_Witness ==
    /\ result \in Failures
    /\ Len(ticket_ids) = 2
    /\ idx = 2
    /\ Len(tickets) = 1
    /\ exitCode = 1

Printed(msg) == \E i \in 1..Len(console) : console[i].msg = msg

\* C9: the script prints "Wrote N tickets" only after a write attempt
\* succeeded; a failure other than EBUSY ends the run with a failure status.
C9_WroteOnlyAfterSuccess ==
    Printed("Wrote tickets") => (written.exists /\ exitCode = 0)

\* The first line of f that is neither blank nor an 8-digit id, 0 if none.
FirstBadLine(f) ==
    LET bad == {i \in 1..Len(f.lines) :
                  /\ f.lines[i] # BLANK
                  /\ ~(Len(f.lines[i]) = 8
                       /\ \A k \in 1..Len(f.lines[i]) : f.lines[i][k] \in Digits)}
    IN IF bad = {} THEN 0 ELSE Min(bad)

\* The message each fatal startup condition is reported with.
StartupMessage ==
    IF ~env_TDX_KEY THEN [msg |-> "ERROR: Remember to set an API key.", n |-> 0]
    ELSE IF file.err = "ENOENT" THEN [msg |-> "Could not find file", n |-> 0]
    ELSE IF file.err # "none" THEN [msg |-> file.err, n |-> 0]
    ELSE IF FirstBadLine(file) # 0
    THEN [msg |-> "Invalid ticket ID", n |-> FirstBadLine(file)]
    ELSE IF \A i \in 1..Len(file.lines) : file.lines[i] = BLANK
    THEN [msg |-> "Error: No ticket IDs found", n |-> 0]
    ELSE [msg |-> "", n |-> 0]

\* C10: each fatal startup condition ends the run through error(): its
\* message is printed, the status is 1, no request was sent and nothing written.
C10_StartupFailuresReported ==
    (StartupMessage.msg # "" /\ (cpc = "failed" \/ mpc # "start")) =>
        /\ console = <<StartupMessage>>
        /\ exitCode = 1
        /\ windowSent = 0
        /\ inflight = EmptyBag
        /\ attempts = 0
        /\ ~written.exists

----------------------------------------------------------------------------
(* Properties of the normalization *)

\* What a count attribute adds to the quantity: its number, 0 when missing.
CountOrZero(json, c) == IF c \in json.attrs THEN Decimal(json.counts[c]) ELSE 0

\* C11: the quantity of a normalized ticket is the sum of its four counts,
\* each read as a number and a missing one as 0; it is never NaN.
C11_QuantityIsSum ==
    mpc = "normalized" =>
        /\ ~fetched.ticket.quantity.nan
        /\ fetched.ticket.quantity.n =
              CountOrZero(fetched.json, "NUM_STUDENTS_ID")
              + CountOrZero(fetched.json, "NUM_STAFF_ID")
              + CountOrZero(fetched.json, "NUM_PUBLIC_ID")
              + CountOrZero(fetched.json, "NUM_OTHERS_ID")

\* The two sources the normalization is documented to depend on.
FragileSources == {"Information Classification Standard", "TECH_COORDINATOR_ID"}

\* The row of the ticket just fetched has an undefined or empty field for
\* each source in `missing` that a field is read from.
AbsentFields(row, missing) ==
    /\ "Vendor" \in missing => row.vendor = "undefined"
    /\ "Renewal" \in missing => row.isRenewal = "New"
    /\ "Software Type" \in missing => row.swType = ""
    /\ "DoIT Security Classification" \in missing => row.risk = "undefined"
    /\ "DoIT Security SME Summary" \in missing => row.notes \in {"undefined", ""}

\* C12: a successful response that has the two fragile sources, whatever
\* other attribute it lacks, is normalized and converted to a row whose
\* corresponding field is undefined or empty, and the loop goes on: the
\* process does not exit.
C12_AbsenceTolerated ==
    [][(/\ mpc = "await"
        /\ mpc' # "await"
        /\ fetched'.json.ok
        /\ FragileSources \subseteq fetched'.json.attrs) =>
            /\ mpc' = "loop"
            /\ exitCode' = Running
            /\ result' = "ticket"
            /\ Len(tickets') = Len(tickets) + 1
            /\ \E i \in 1..Len(tickets') :
                  /\ tickets'[i].id = fetched'.json.ID
                  /\ AbsentFields(tickets'[i], Attributes \ fetched'.json.attrs)]_vars

----------------------------------------------------------------------------
(* Refills and waiting, checked under Spec and SpecLive *)

\* C13: the bucket of a constructed client gains tokens or a new refill time
\* only when no refill has happened yet or the window has elapsed since the
\* last one; the step then records the current time and fills the bucket to
\* capacity (less the one token consume_token takes in the same step), and
\* two consecutive refills are at least a window apart.
C13_RefillOnlyAfterWindow ==
    [][(Constructed /\ (lastRefresh' # lastRefresh \/ tokens' > tokens)) =>
          /\ lastRefresh = Undefined \/ clock - lastRefresh >= WindowMs
          /\ lastRefresh' = clock
          /\ tokens' = IF lastOp'.op = "consume_take"
                       THEN MAX_TOKENS - 1 ELSE MAX_TOKENS
          /\ lastRefresh # Undefined => lastRefresh' - lastRefresh >= WindowMs
          /\ lastOp'.refilled]_vars

\* A refill after the first one, made by the check inside consume_token
\* that precedes taking the token.
C13_Witness ==
    /\ lastOp = [op |-> "consume_take", refilled |-> TRUE]
    /\ tokens = MAX_TOKENS - 1
    /\ lastRefresh = clock
    /\ clock >= WindowMs

\* The clock has room for a full window of waiting.
ClockAdvances == clock + WindowMs + SLEEP_MS <= MaxClock

\* C14: a consume_token call under way only waits or returns: it prints
\* nothing and does not end the process, it returns having taken exactly one
\* token from a bucket that held one, and, the clock having room to advance
\* by a window, it does return.
C14_ExhaustionOnlyWaits ==
    /\ [][cpc = "consume" =>
            /\ cpc' \in {"consume", "ready"}
            /\ exitCode' = Running
            /\ console' = console
            /\ cpc' = "consume" => clock' = clock + SLEEP_MS
            /\ cpc' = "ready" =>
                  /\ tokens' = refresh_tokens(tokens, lastRefresh, clock).tokens - 1
                  /\ tokens' >= 0]_vars
    /\ (cpc = "consume" /\ ClockAdvances) ~>
           (cpc = "ready" /\ lastOp.op = "consume_take")

\* A call that found the bucket exhausted, waited, refilled it and then
\* returned with its token. The first refill is made at a multiple of the
\* clock steps; this one, made by a wait that began after a request, is not.
C14_Witness ==
    /\ cpc = "ready"
    /\ lastOp = [op |-> "consume_take", refilled |-> FALSE]
    /\ tokens = MAX_TOKENS - 1
    /\ windowTaken = 1
    /\ lastRefresh >= WindowMs
    /\ lastRefresh % (WindowMs \div 2) # 0
    /\ clock = lastRefresh + SLEEP_MS
    /\ exitCode = Running

====
